---- MODULE Spec2Model ----
(***************************************************************************)
(* A model of the cileamzh-web HTTP library: HttpServer (server.rs) with   *)
(* its registration calls, accept loop, read loop and per-connection       *)
(* handle_stream; HttpRequest::from, HttpResponse and the handle_stream of *)
(* Server (lib.rs).                                                        *)
(*                                                                         *)
(* A Rust String is a sequence of characters; a character is a one-element *)
(* TLA+ string.  "U+00E9" stands for a character whose UTF-8 encoding is   *)
(* two bytes long, so that byte offsets and character indices differ.      *)
(***************************************************************************)
EXTENDS Naturals, Sequences, FiniteSets, TLC

VARIABLES
    phase,          \* "config" before run(self), "running" after it is
                    \* entered, "panicked" when a registration panicked
    routers,        \* HttpServer.routers: (method, path) -> handler id
    middlewares,    \* HttpServer.middlewares: sequence of middleware closures
    static_route,   \* HttpServer.static_route: sequence of <<prefix, dir>>
    nconn,          \* items listener.incoming() has yielded to run() so far
    accept_errs,    \* "Connection failed" lines printed by run()
    pc,             \* per connection: position of its thread in handle_stream
    sock,           \* per connection: the text the peer has sent
    result,         \* per connection: the String read_stream_to_httpstr builds
    req,            \* per connection: the parsed HttpRequest (or NoReq)
    res,            \* per connection: the HttpResponse being built
    wire,           \* per connection: the responses written to the stream
    idx,            \* per connection: index of the static_route loop
    log,            \* per connection: closures invoked and writes, in order
    stderr          \* per connection: "Error handling stream" was printed

vars == <<phase, routers, middlewares, static_route, nconn, accept_errs,
          pc, sock, result, req, res, wire, idx, log, stderr>>

srv_vars == <<phase, routers, middlewares, static_route>>

-----------------------------------------------------------------------------
(* Bounds of the model.                                                     *)

\* Connection attempts that reach run(); calls of the registration methods
\* before run(); tokens on a request line given to HttpRequest::from.
MaxConns == 2
MaxRegs == 2
MaxTokens == 4

Conns == 1..MaxConns

-----------------------------------------------------------------------------
(* Rust str primitives.                                                     *)

MultiByte == "U+00E9"

\* U+FFFD REPLACEMENT CHARACTER, three bytes long in UTF-8.
Replacement == "U+FFFD"

\* The UTF-8 encoding of one character.  A byte is a one-element string: an
\* ASCII character stands for its own byte.
Utf8(c) ==
    IF c = MultiByte THEN <<"xC3", "xA9">>
    ELSE IF c = Replacement THEN <<"xEF", "xBF", "xBD">>
    ELSE <<c>>

\* UTF-8 length of one character.
Utf8Len(c) == Len(Utf8(c))

\* Bytes that are not ASCII: 0xFF never occurs in UTF-8.
HighBytes == {"xC3", "xA9", "xEF", "xBF", "xBD", "xFF"}

RECURSIVE as_bytes(_)
\* str::as_bytes(): the UTF-8 encoding of a String.
as_bytes(s) == IF s = <<>> THEN <<>> ELSE Utf8(Head(s)) \o as_bytes(Tail(s))

\* Byte i of b continues the sequence that an earlier byte began.
Continues(b, i) ==
    \/ i > 1 /\ b[i] = "xA9" /\ b[i - 1] = "xC3"
    \/ i > 1 /\ b[i] = "xBF" /\ b[i - 1] = "xEF"
    \/ i > 2 /\ b[i] = "xBD" /\ b[i - 1] = "xBF" /\ b[i - 2] = "xEF"

\* What the sequence beginning at byte i decodes to: a well-formed sequence
\* gives its character, a maximal ill-formed one gives U+FFFD.
DecodeAt(b, i) ==
    IF Continues(b, i) THEN <<>>
    ELSE IF b[i] \notin HighBytes THEN <<b[i]>>
    ELSE IF b[i] = "xC3" /\ i < Len(b) /\ b[i + 1] = "xA9" THEN <<MultiByte>>
    ELSE <<Replacement>>

RECURSIVE Utf8LossyRange(_, _, _)
\* The decoding of the sequences of b that begin at bytes lo..hi.
Utf8LossyRange(b, lo, hi) ==
    IF lo > hi THEN <<>>
    ELSE IF lo = hi THEN DecodeAt(b, lo)
    ELSE Utf8LossyRange(b, lo, (lo + hi) \div 2)
             \o Utf8LossyRange(b, ((lo + hi) \div 2) + 1, hi)

\* String::from_utf8_lossy(bytes)
from_utf8_lossy(b) == Utf8LossyRange(b, 1, Len(b))

RECURSIVE ByteLen(_)
\* str::len(): the length in bytes.
ByteLen(s) == IF s = <<>> THEN 0 ELSE Utf8Len(Head(s)) + ByteLen(Tail(s))

\* The byte offset n is a character boundary of s.
IsCharBoundary(s, n) ==
    \E k \in 0..Len(s) : ByteLen(SubSeq(s, 1, k)) = n

\* Number of characters of s that lie before byte offset n (a boundary).
CharsBefore(s, n) ==
    CHOOSE k \in 0..Len(s) : ByteLen(SubSeq(s, 1, k)) = n

None == [some |-> FALSE]
Some(v) == [some |-> TRUE, val |-> v]

\* str::get(..n): None unless n is a character boundary within s.
GetTo(s, n) ==
    IF IsCharBoundary(s, n) THEN Some(SubSeq(s, 1, CharsBefore(s, n))) ELSE None

\* str::get(n..): None unless n is a character boundary within s.
GetFrom(s, n) ==
    IF IsCharBoundary(s, n)
    THEN Some(SubSeq(s, CharsBefore(s, n) + 1, Len(s)))
    ELSE None

\* str.chars().nth(n): the character with (0-based) character index n.
CharsNth(s, n) == IF n < Len(s) THEN Some(s[n + 1]) ELSE None

\* s has pat at (1-based) character position i.
MatchAt(s, pat, i) ==
    /\ i + Len(pat) - 1 <= Len(s)
    /\ \A k \in 1..Len(pat) : s[i + k - 1] = pat[k]

RECURSIVE FindFrom(_, _, _)
\* Position of the first occurrence of pat in s at or after i, 0 when none.
FindFrom(s, pat, i) ==
    IF i + Len(pat) - 1 > Len(s) THEN 0
    ELSE IF MatchAt(s, pat, i) THEN i
    ELSE FindFrom(s, pat, i + 1)

\* Position of the first occurrence of pat in s, 0 when there is none.
Find(s, pat) == FindFrom(s, pat, 1)

RECURSIVE SplitFrom(_, _, _, _)
\* The pieces of s from position `from` on, the next occurrence of pat being
\* at position `at` (0: none).
SplitFrom(s, pat, from, at) ==
    IF at = 0 THEN <<SubSeq(s, from, Len(s))>>
    ELSE <<SubSeq(s, from, at - 1)>>
             \o SplitFrom(s, pat, at + Len(pat), FindFrom(s, pat, at + Len(pat)))

\* str::split(pat).collect(): every piece between successive occurrences.
Split(s, pat) == SplitFrom(s, pat, 1, Find(s, pat))

\* The text before and after the occurrence of pat at position `at` (0: none).
SplitOnceAt(s, pat, at) ==
    IF at = 0 THEN None
    ELSE Some(<<SubSeq(s, 1, at - 1), SubSeq(s, at + Len(pat), Len(s))>>)

\* str::split_once(pat): the text before and after the first occurrence.
SplitOnce(s, pat) == SplitOnceAt(s, pat, Find(s, pat))

StripSuffix(s, c) ==
    IF s # <<>> /\ s[Len(s)] = c THEN SubSeq(s, 1, Len(s) - 1) ELSE s

RECURSIVE LinesFrom(_, _, _)
\* The lines of s from position `from` on, the next "\n" being at `at` (0: none).
LinesFrom(s, from, at) ==
    IF from > Len(s) THEN <<>>
    ELSE IF at = 0 THEN <<SubSeq(s, from, Len(s))>>
    ELSE <<StripSuffix(SubSeq(s, from, at - 1), "\r")>>
             \o LinesFrom(s, at + 1, FindFrom(s, <<"\n">>, at + 1))

\* str::lines().collect(): split after every "\n"; a line loses its "\n" and a
\* "\r" right before it; text after the last "\n" is a line only if not empty.
Lines(s) == LinesFrom(s, 1, Find(s, <<"\n">>))

IsWhitespace(c) == c \in {" ", "\t", "\r", "\n"}

RECURSIVE TokenLen(_, _)
\* Length of the run of non-whitespace that starts s, counted from i.
TokenLen(s, i) ==
    IF i > Len(s) \/ IsWhitespace(s[i]) THEN i - 1 ELSE TokenLen(s, i + 1)

RECURSIVE SplitWhitespace(_)
\* str::split_whitespace().collect(): the maximal runs of non-whitespace.
SplitWhitespace(s) ==
    IF s = <<>> THEN <<>>
    ELSE IF IsWhitespace(Head(s)) THEN SplitWhitespace(Tail(s))
    ELSE LET n == TokenLen(s, 1)
         IN  <<SubSeq(s, 1, n)>> \o SplitWhitespace(SubSeq(s, n + 1, Len(s)))

RECURSIVE Decimal(_)
\* format!("{}", n) of an unsigned integer: its decimal digits.
Decimal(n) ==
    LET digit == <<"0", "1", "2", "3", "4", "5", "6", "7", "8", "9">>
    IN  IF n < 10 THEN <<digit[n + 1]>>
        ELSE Decimal(n \div 10) \o <<digit[(n % 10) + 1]>>

\* All orders in which the elements of the finite set S can be iterated.
RECURSIVE Orders(_)
Orders(S) ==
    IF S = {} THEN {<<>>}
    ELSE UNION {{<<x>> \o o : o \in Orders(S \ {x})} : x \in S}

-----------------------------------------------------------------------------
(* String constants of the program.                                         *)

CRLF == <<"\r", "\n">>
HeaderBodySep == <<"\r", "\n", "\r", "\n">>
ColonSpace == <<":", " ">>
DefaultStatus == <<"H", "T", "T", "P", "/", "1", ".", "1", " ", "2", "0", "0", " ", "O", "K">>
ContentLengthPrefix == <<"C", "o", "n", "t", "e", "n", "t", "-", "L", "e", "n", "g", "t", "h", ":", " ">>
ContentType == <<"C", "o", "n", "t", "e", "n", "t", "-", "T", "y", "p", "e">>
TextPlain == <<"t", "e", "x", "t", "/", "p", "l", "a", "i", "n">>
NotFoundBody == <<"4", "0", "4", " ", "N", "o", "t", " ", "F", "o", "u", "n", "d">>
FileNotFoundBody == <<"f", "i", "l", "e", " ", "n", "o", "t", " ", "f", "o", "u", "n", "d">>
NotFoundName == <<"n", "o", "t", "_", "f", "o", "u", "n", "d">>
GET == <<"G", "E", "T">>
POST == <<"P", "O", "S", "T">>

-----------------------------------------------------------------------------
(* HttpRequest (lib.rs).                                                    *)

NoReq == [kind |-> "none"]
Panic == [kind |-> "panic"]

\* HashMap::new() and HashMap::insert: a key maps to the value inserted last.
EmptyMap == [k \in {} |-> <<>>]

Insert(h, key, value) ==
    [k \in (DOMAIN h) \cup {key} |-> IF k = key THEN value ELSE h[k]]

RECURSIVE HeaderMap(_)
\* The loop over request_lines[1..]: headers.insert for each line that holds
\* ": ", in order; lines without it are skipped.
HeaderMap(lines) ==
    IF lines = <<>> THEN EmptyMap
    ELSE LET kv   == SplitOnce(lines[Len(lines)], ColonSpace)
             rest == HeaderMap(SubSeq(lines, 1, Len(lines) - 1))
         IN  IF kv.some THEN Insert(rest, kv.val[1], kv.val[2]) ELSE rest

\* The element of a one-element set: Only({e(x) : x \in {v}}) is e with x
\* standing for the value v, which is computed once.
Only(S) == CHOOSE v \in S : TRUE

\* HttpRequest::from(req_str), its `let` bindings innermost last: parts,
\* request_lines, first_line_parts, path_params.  Indexing a Vec out of
\* bounds panics; the function has no path that returns Err.
HttpRequest_from(req_str) ==
    Only({ Only({ Only({ Only({
        IF request_lines = <<>> THEN Panic
        ELSE IF Len(first_line_parts) < 3 THEN Panic
        ELSE [kind     |-> "ok",
              method   |-> first_line_parts[1],
              path     |-> path_params[1],
              params   |-> IF Len(path_params) > 1 THEN path_params[2] ELSE <<>>,
              protocol |-> first_line_parts[3],
              headers  |-> HeaderMap(Tail(request_lines)),
              body     |-> IF Len(parts) > 1 THEN parts[2] ELSE <<>>]
        : path_params \in
              {IF Len(first_line_parts) < 2 THEN <<>>
               ELSE Split(first_line_parts[2], <<"?">>)} })
        : first_line_parts \in
              {IF request_lines = <<>> THEN <<>>
               ELSE SplitWhitespace(request_lines[1])} })
        : request_lines \in {Lines(parts[1])} })
        : parts \in {Split(req_str, HeaderBodySep)} })

get_path(r) == r.path
get_method(r) == r.method
get_params(r) == r.params
get_protocol(r) == r.protocol
get_body(r) == r.body

-----------------------------------------------------------------------------
(* HttpResponse (lib.rs).  headers is a HashMap: a function from the keys   *)
(* inserted to their values, iterated in an unspecified order.              *)

HttpResponse_new == [status |-> DefaultStatus, headers |-> EmptyMap, body |-> <<>>]

set_body(r, body) == [r EXCEPT !.body = body]

set_header(r, key, value) == [r EXCEPT !.headers = Insert(r.headers, key, value)]

set_status(r, status) == [r EXCEPT !.status = status]

\* A get_string that counts the body's characters (body.chars().count()).
body_len_chars(r) == Len(r.body)

\* self.body.len() in get_string: the body's length in bytes.
body_len(r) == ByteLen(r.body)

RECURSIVE HeaderLines(_, _)
HeaderLines(h, order) ==
    IF order = <<>> THEN <<>>
    ELSE Head(order) \o ColonSpace \o h[Head(order)] \o CRLF
             \o HeaderLines(h, Tail(order))

\* HttpResponse::get_string(), the HashMap being iterated in `order`.
get_string(r, order) ==
    r.status \o CRLF \o ContentLengthPrefix \o Decimal(body_len(r)) \o CRLF
        \o HeaderLines(r.headers, order) \o CRLF \o r.body

\* The texts get_string() may return for r.
Serializations(r) == {get_string(r, o) : o \in Orders(DOMAIN r.headers)}

-----------------------------------------------------------------------------
(* The file system read by static resolution, and get_mime_type.            *)

File_f == <<"d", "/", "f">>
File_s_js == <<"d", "/", "s", ".", "j", "s">>
File_p_png == <<"d", "/", "p", ".", "p", "n", "g">>
Dir_d == <<"d", "/">>

\* Path::new(p).exists()
PathExists(p) == p \in {File_f, File_s_js, File_p_png, Dir_d}

\* fs::read(p): the bytes of a regular file; reading a directory fails.  The
\* file d/p.png holds a byte that is not UTF-8.
FsRead(p) ==
    IF p = File_f THEN Some(<<"F", "xC3", "xA9">>)
    ELSE IF p = File_s_js THEN Some(<<"j">>)
    ELSE IF p = File_p_png THEN Some(<<"P", "xFF">>)
    ELSE None

\* Path::new(file_path).extension().and_then(|ext| ext.to_str()): the text
\* after the last "." of the last component, None if that component has no
\* "." or only a leading one.
PathExtension(p) ==
    LET slashes == {i \in 1..Len(p) : p[i] = "/"}
        start   == IF slashes = {} THEN 1
                   ELSE (CHOOSE i \in slashes : \A j \in slashes : j <= i) + 1
        name    == SubSeq(p, start, Len(p))
        dots    == {i \in 2..Len(name) : name[i] = "."}
    IN  IF dots = {} THEN None
        ELSE LET d == CHOOSE i \in dots : \A j \in dots : j <= i
             IN  Some(SubSeq(name, d + 1, Len(name)))

MimeTable ==
    { <<(<<"h", "t", "m", "l">>), (<<"t", "e", "x", "t", "/", "h", "t", "m", "l">>)>>,
      <<(<<"c", "s", "s">>), (<<"t", "e", "x", "t", "/", "c", "s", "s">>)>>,
      <<(<<"j", "s">>), (<<"a", "p", "p", "l", "i", "c", "a", "t", "i", "o", "n", "/", "j", "a", "v", "a", "s", "c", "r", "i", "p", "t">>)>>,
      <<(<<"j", "s", "o", "n">>), (<<"a", "p", "p", "l", "i", "c", "a", "t", "i", "o", "n", "/", "j", "s", "o", "n">>)>>,
      <<(<<"p", "n", "g">>), (<<"i", "m", "a", "g", "e", "/", "p", "n", "g">>)>>,
      <<(<<"j", "p", "g">>), (<<"i", "m", "a", "g", "e", "/", "j", "p", "e", "g">>)>>,
      <<(<<"j", "p", "e", "g">>), (<<"i", "m", "a", "g", "e", "/", "j", "p", "e", "g">>)>>,
      <<(<<"g", "i", "f">>), (<<"i", "m", "a", "g", "e", "/", "g", "i", "f">>)>>,
      <<(<<"s", "v", "g">>), (<<"i", "m", "a", "g", "e", "/", "s", "v", "g", "+", "x", "m", "l">>)>>,
      <<(<<"m", "p", "4">>), (<<"v", "i", "d", "e", "o", "/", "m", "p", "4">>)>>,
      <<(<<"m", "p", "3">>), (<<"a", "u", "d", "i", "o", "/", "m", "p", "e", "g">>)>>,
      <<(<<"o", "g", "g">>), (<<"a", "u", "d", "i", "o", "/", "o", "g", "g">>)>>,
      <<(<<"w", "a", "v">>), (<<"a", "u", "d", "i", "o", "/", "w", "a", "v">>)>>,
      <<(<<"p", "d", "f">>), (<<"a", "p", "p", "l", "i", "c", "a", "t", "i", "o", "n", "/", "p", "d", "f">>)>> }

OctetStream == <<"a", "p", "p", "l", "i", "c", "a", "t", "i", "o", "n", "/", "o", "c", "t", "e", "t", "-", "s", "t", "r", "e", "a", "m">>

get_mime_type(file_path) ==
    LET ext == PathExtension(file_path)
    IN  IF ext.some /\ \E e \in MimeTable : e[1] = ext.val
        THEN (CHOOSE e \in MimeTable : e[1] = ext.val)[2]
        ELSE OctetStream

-----------------------------------------------------------------------------
(* The closures an application registers.  A closure is opaque to the      *)
(* library; the model gives it one of a few effects on the response.       *)

Status500 == <<"H", "T", "T", "P", "/", "1", ".", "1", " ", "5", "0", "0", " ", "E">>
MwKey == <<"X">>
MwVal == <<"1">>
MwBody == <<"m", "w">>

MwEffects == {"tag", "status"}

\* middleware(&mut req, &mut res) for a closure with effect e.
MwApply(e, r) ==
    IF e = "status" THEN set_status(r, Status500)
    ELSE set_body(set_header(r, MwKey, MwVal), MwBody)

\* handler(&mut req, &mut res) for the handler registered h-th.
HandlerBody(h) == <<"h">> \o Decimal(h)
HandlerApply(h, r) == set_body(r, HandlerBody(h))

-----------------------------------------------------------------------------
(* Inputs: what the application registers and what peers send.              *)

Path_x == <<"/", "x">>
Path_a_f == <<"/", "a", "/", "f">>
Path_mb == <<"/", MultiByte>>
RouteKeys == {<<GET, Path_x>>, <<POST, Path_x>>, <<GET, Path_a_f>>, <<GET, Path_mb>>}
StaticPrefixes == {<<"/", "a">>}
StaticDirs == {<<"d">>, <<"e">>}
Protocol == <<"H", "T", "T", "P", "/", "1", ".", "1">>

RequestText(method, target) ==
    method \o <<" ">> \o target \o <<" ">> \o Protocol \o HeaderBodySep

\* The request texts peers send to the running server: well-formed requests
\* and one whose request line has two tokens.
ConnTexts ==
    { RequestText(GET, Path_x), RequestText(POST, Path_x),
      RequestText(GET, Path_a_f),
      RequestText(GET, Path_mb),
      GET \o <<" ">> \o Path_x \o HeaderBodySep }

-----------------------------------------------------------------------------
(* HttpServer: new, the registration calls, run (server.rs).                *)

EmptyConn(v) == [c \in Conns |-> v]

\* HttpServer::new: empty tables; no connection exists yet.
Init ==
    /\ phase = "config"
    /\ routers = EmptyMap
    /\ middlewares = <<>>
    /\ static_route = <<>>
    /\ nconn = 0
    /\ accept_errs = 0
    /\ pc = EmptyConn("idle")
    /\ sock = EmptyConn(<<>>)
    /\ result = EmptyConn(<<>>)
    /\ req = EmptyConn(NoReq)
    /\ res = EmptyConn(HttpResponse_new)
    /\ wire = EmptyConn(<<>>)
    /\ idx = EmptyConn(0)
    /\ log = EmptyConn(<<>>)
    /\ stderr = EmptyConn(FALSE)

conn_vars == <<nconn, accept_errs, pc, sock, result, req, res, wire, idx, log, stderr>>

\* The handlers the route table holds, and the id of the next Arc::new(handler).
Handlers == {routers[k] : k \in DOMAIN routers}
NextHandler ==
    IF Handlers = {} THEN 1
    ELSE (CHOOSE h \in Handlers : \A g \in Handlers : g <= h) + 1

\* Calls of add_route, add_middleware and add_static_dir made so far.
Registrations == (NextHandler - 1) + Len(middlewares) + Len(static_route)

\* A server that run(&self) would leave with its owner.
CanRegister_shared == phase \in {"config", "running"}

\* The application still holds the server and can call a &mut self method:
\* run(self) has not taken it.
CanRegister == phase = "config"

\* The threads that hold the clones of the three Arcs made for them by run.
Live == {c \in Conns : pc[c] \in {"read", "parse", "static", "middleware", "route"}}

\* Arc::strong_count of each table: the server's own reference and the clone
\* moved into every live thread.
strong_count == 1 + Cardinality(Live)

\* Arc::get_mut(&mut self.table): Some when no other reference exists.
get_mut == IF strong_count = 1 THEN Some(TRUE) ELSE None

\* add_route(&mut self, method, path, handler): Arc::get_mut(..).unwrap(),
\* then HashMap::insert of a new Arc.
add_route(method, path) ==
    /\ CanRegister
    /\ Registrations < MaxRegs
    /\ IF get_mut.some
       THEN /\ routers' = Insert(routers, <<method, path>>, NextHandler)
            /\ UNCHANGED phase
       ELSE /\ phase' = "panicked"
            /\ UNCHANGED routers
    /\ UNCHANGED <<middlewares, static_route, conn_vars>>

add_get(path) == add_route(GET, path)

add_post(path) == add_route(POST, path)

\* add_middleware(&mut self, middleware): Arc::get_mut(..).unwrap(), Vec::push.
add_middleware(effect) ==
    /\ CanRegister
    /\ Registrations < MaxRegs
    /\ IF get_mut.some
       THEN /\ middlewares' = Append(middlewares, effect)
            /\ UNCHANGED phase
       ELSE /\ phase' = "panicked"
            /\ UNCHANGED middlewares
    /\ UNCHANGED <<routers, static_route, conn_vars>>

\* add_static_dir(&mut self, path, dir): Arc::get_mut(..).unwrap(), Vec::push.
add_static_dir(path, dir) ==
    /\ CanRegister
    /\ Registrations < MaxRegs
    /\ IF get_mut.some
       THEN /\ static_route' = Append(static_route, <<path, dir>>)
            /\ UNCHANGED phase
       ELSE /\ phase' = "panicked"
            /\ UNCHANGED static_route
    /\ UNCHANGED <<routers, middlewares, conn_vars>>

\* run(self) is entered: it consumes the server, so no registration follows.
run ==
    /\ phase = "config"
    /\ phase' = "running"
    /\ UNCHANGED <<routers, middlewares, static_route, conn_vars>>

\* run: listener.incoming() yields Ok(stream); a thread is spawned for it.
Accept(text) ==
    /\ phase = "running"
    /\ nconn < MaxConns
    /\ nconn' = nconn + 1
    /\ pc' = [pc EXCEPT ![nconn + 1] = "read"]
    /\ sock' = [sock EXCEPT ![nconn + 1] = text]
    /\ UNCHANGED <<srv_vars, accept_errs, result, req, res, wire, idx, log, stderr>>

\* run: listener.incoming() yields Err(e); it is printed and the loop goes on.
AcceptFail ==
    /\ phase = "running"
    /\ nconn < MaxConns
    /\ nconn' = nconn + 1
    /\ accept_errs' = accept_errs + 1
    /\ pc' = [pc EXCEPT ![nconn + 1] = "refused"]
    /\ UNCHANGED <<srv_vars, sock, result, req, res, wire, idx, log, stderr>>

-----------------------------------------------------------------------------
(* handle_stream (server.rs), one thread per connection c.                  *)

\* handle_stream returned Err(e): run's closure prints it; the stream is dropped.
Fail(c) ==
    /\ pc' = [pc EXCEPT ![c] = "failed"]
    /\ stderr' = [stderr EXCEPT ![c] = TRUE]

\* The thread panicked: it unwinds and the stream is dropped.
Panicked(c) ==
    /\ pc' = [pc EXCEPT ![c] = "panicked"]
    /\ UNCHANGED stderr

\* let mut buf = vec![0; 512];
BufLen == 512

\* A loop that leaves only after an empty read.
read_breaks_zero(n) == n = 0

\* The loop of read_stream_to_httpstr leaves after a read of n bytes.
read_breaks(n) == n = 0 \/ n < BufLen

\* One turn of the loop of read_stream_to_httpstr: stream.read returns the
\* given bytes, which are decoded and pushed onto the result.
ReadChunk(c, bytes) ==
    /\ pc[c] = "read"
    /\ Len(bytes) <= BufLen
    /\ result' = [result EXCEPT ![c] =
                       IF Len(bytes) = 0 THEN @ ELSE @ \o from_utf8_lossy(bytes)]
    /\ log' = [log EXCEPT ![c] = Append(@, <<"read", bytes>>)]
    /\ pc' = [pc EXCEPT ![c] = IF read_breaks(Len(bytes)) THEN "parse" ELSE "read"]
    /\ UNCHANGED <<srv_vars, nconn, accept_errs, sock, req, res, wire, idx, stderr>>

\* read_stream_to_httpstr on a connection whose peer has sent a text shorter
\* than the buffer: one read returns all of it.
ReadRequest(c) == \E bytes \in {as_bytes(sock[c])} : ReadChunk(c, bytes)

\* stream.read fails: `?` returns the error and the result is dropped.
ReadError(c) ==
    /\ pc[c] = "read"
    /\ Fail(c)
    /\ result' = [result EXCEPT ![c] = <<>>]
    /\ UNCHANGED <<srv_vars, nconn, accept_errs, sock, req, res, wire, idx, log>>

\* Where the static loop goes after pair i: the next pair, or the middleware.
AfterStatic(i) == IF i < Len(static_route) THEN "static" ELSE "middleware"

\* let mut req = HttpRequest::from(result)?; let mut res = HttpResponse::new();
ParseRequest(c) ==
    /\ pc[c] = "parse"
    /\ \E r \in {HttpRequest_from(result[c])} :
           IF r.kind = "panic"
           THEN /\ Panicked(c)
                /\ UNCHANGED <<req, res, idx>>
           ELSE /\ req' = [req EXCEPT ![c] = r]
                /\ res' = [res EXCEPT ![c] = HttpResponse_new]
                /\ idx' = [idx EXCEPT ![c] = 1]
                /\ pc' = [pc EXCEPT ![c] = AfterStatic(0)]
                /\ UNCHANGED stderr
    /\ UNCHANGED <<srv_vars, nconn, accept_errs, sock, result, wire, log>>

\* The test of one static pair against the request path (server.rs 99-102):
\* "match", "skip", or "panic" when an unwrap meets None.
StaticMatch(rpath, path) ==
    IF ~(ByteLen(path) < ByteLen(rpath)) THEN "skip"
    ELSE LET head == GetTo(rpath, ByteLen(path))
             sep  == CharsNth(rpath, ByteLen(path))
         IN  IF ~head.some THEN "panic"
             ELSE IF head.val # path THEN "skip"
             ELSE IF ~sep.some THEN "panic"
             ELSE IF sep.val = "/" THEN "match" ELSE "skip"

\* format!("{}/{}", dir, req.get_path().get((path.len() + 1)..).unwrap_or("not_found"))
StaticFile(rpath, path, dir) ==
    LET rest == GetFrom(rpath, ByteLen(path) + 1)
    IN  dir \o <<"/">> \o (IF rest.some THEN rest.val ELSE NotFoundName)

\* The response a matched static pair builds (server.rs 110-120): the file
\* with its mime type, or "file not found"; "panic" when fs::read fails.
StaticResponse(r, file_str) ==
    IF PathExists(file_str)
    THEN LET contents == FsRead(file_str)
         IN  IF ~contents.some THEN Panic
             ELSE [kind |-> "ok",
                   res  |-> set_body(set_header(r, ContentType, get_mime_type(file_str)),
                                     from_utf8_lossy(contents.val))]
    ELSE [kind |-> "ok", res |-> set_body(r, FileNotFoundBody)]

\* stream.write_all(res.get_string().as_bytes())?; stream.flush()?
\* The write succeeds, or fails and `?` returns the error.
WriteOrFail(c, r, events, next) ==
    \/ /\ \E text \in Serializations(r) : wire' = [wire EXCEPT ![c] = Append(@, text)]
       /\ log' = [log EXCEPT ![c] = @ \o events \o <<(<<"write", Len(wire[c]) + 1>>)>>]
       /\ pc' = [pc EXCEPT ![c] = next]
       /\ UNCHANGED stderr
    \/ /\ Fail(c)
       /\ log' = [log EXCEPT ![c] = @ \o events]
       /\ UNCHANGED wire

\* One iteration of `for (path, dir) in static_route.iter()`.
StaticStep(c) ==
    /\ pc[c] = "static"
    /\ LET i     == idx[c]
           path  == static_route[i][1]
           dir   == static_route[i][2]
           m     == StaticMatch(get_path(req[c]), path)
           built == StaticResponse(res[c], StaticFile(get_path(req[c]), path, dir))
       IN  /\ idx' = [idx EXCEPT ![c] = i + 1]
           /\ CASE m = "panic" ->
                     /\ Panicked(c)
                     /\ UNCHANGED <<res, wire, log>>
                [] m = "skip" ->
                     /\ pc' = [pc EXCEPT ![c] = AfterStatic(i)]
                     /\ UNCHANGED <<res, wire, log, stderr>>
                [] m = "match" /\ built.kind = "panic" ->
                     /\ Panicked(c)
                     /\ log' = [log EXCEPT ![c] = Append(@, <<"static", i>>)]
                     /\ UNCHANGED <<res, wire>>
                [] OTHER ->
                     /\ res' = [res EXCEPT ![c] = built.res]
                     /\ WriteOrFail(c, built.res, <<(<<"static", i>>)>>, AfterStatic(i))
    /\ UNCHANGED <<srv_vars, nconn, accept_errs, sock, result, req>>

RECURSIVE RunChain(_, _)
\* for middleware in middlewares.iter() { middleware(&mut req, &mut res); }
RunChain(chain, r) ==
    IF chain = <<>> THEN r
    ELSE MwApply(chain[Len(chain)], RunChain(SubSeq(chain, 1, Len(chain) - 1), r))

\* The middleware loop (server.rs 126-130).
RunMiddleware(c) ==
    /\ pc[c] = "middleware"
    /\ res' = [res EXCEPT ![c] = RunChain(middlewares, @)]
    /\ log' = [log EXCEPT ![c] = @ \o [i \in 1..Len(middlewares) |-> <<"mw", i>>]]
    /\ pc' = [pc EXCEPT ![c] = "route"]
    /\ UNCHANGED <<srv_vars, nconn, accept_errs, sock, result, req, wire, idx, stderr>>

\* let key = (req.get_method().to_string(), req.get_path().to_string());
RouteKey(r) == <<get_method(r), get_path(r)>>

\* route.get(&key)
RouteGet(table, key) == IF key \in DOMAIN table THEN Some(table[key]) ELSE None

\* A 404 fallback that also puts the default status line back.
NotFoundResponse_reset(r) ==
    set_status(set_header(set_body(r, NotFoundBody), ContentType, TextPlain),
               DefaultStatus)

\* The 404 fallback (server.rs 138-139).
NotFoundResponse(r) == set_header(set_body(r, NotFoundBody), ContentType, TextPlain)

\* Route lookup, handler or 404 fallback, and the write (server.rs 132-142).
RouteDispatch(c) ==
    /\ pc[c] = "route"
    /\ LET found == RouteGet(routers, RouteKey(req[c]))
           r     == IF found.some THEN HandlerApply(found.val, res[c])
                    ELSE NotFoundResponse(res[c])
           ev    == IF found.some THEN <<"handler", found.val>> ELSE <<"notfound", 0>>
       IN  /\ res' = [res EXCEPT ![c] = r]
           /\ WriteOrFail(c, r, <<(<<"lookup", 0>>), ev>>, "done")
    /\ UNCHANGED <<srv_vars, nconn, accept_errs, sock, result, req, idx>>

-----------------------------------------------------------------------------
(* Server (lib.rs): the server without static directories.  Its             *)
(* handle_stream, after the read, as the closures it invokes in order and   *)
(* the response it hands to write_all.                                      *)

\* A middleware loop that leaves after its first turn.
Server_middlewares_once(chain, r) ==
    IF chain = <<>> THEN r ELSE MwApply(chain[1], r)

RECURSIVE Server_middlewares(_, _)
\* for middleware in middlewares.iter() { middleware(&mut req, &mut res); }
Server_middlewares(chain, r) ==
    IF chain = <<>> THEN r
    ELSE MwApply(chain[Len(chain)],
                 Server_middlewares(SubSeq(chain, 1, Len(chain) - 1), r))

\* The 404 fallback (lib.rs 210-211).
Server_NotFoundResponse(r) ==
    set_header(set_body(r, NotFoundBody), ContentType, TextPlain)

\* handle_stream of lib.rs on the text req_str with the tables route and
\* chain: "panic" when HttpRequest::from panics, else the closures invoked
\* and the response built.
Server_handle_stream(req_str, route, chain) ==
    Only({ IF r.kind = "panic" THEN [kind |-> "panic"]
           ELSE LET found == RouteGet(route, RouteKey(r))
                    res1  == Server_middlewares(chain, HttpResponse_new)
                IN  [kind   |-> "ok",
                     events |-> [i \in 1..Len(chain) |-> <<"mw", i>>]
                                    \o <<(IF found.some THEN <<"handler", found.val>>
                                          ELSE <<"notfound", 0>>)>>,
                     res    |-> IF found.some THEN HandlerApply(found.val, res1)
                                ELSE Server_NotFoundResponse(res1)]
           : r \in {HttpRequest_from(req_str)} })

Next ==
    \/ \E k \in RouteKeys : add_route(k[1], k[2])
    \/ \E k \in RouteKeys : k[1] = GET /\ add_get(k[2])
    \/ \E k \in RouteKeys : k[1] = POST /\ add_post(k[2])
    \/ \E e \in MwEffects : add_middleware(e)
    \/ \E p \in StaticPrefixes, d \in StaticDirs : add_static_dir(p, d)
    \/ run
    \/ \E t \in ConnTexts : Accept(t)
    \/ AcceptFail
    \/ \E c \in Conns : ReadRequest(c)
    \/ \E c \in Conns : ReadError(c)
    \/ \E c \in Conns : ParseRequest(c)
    \/ \E c \in Conns : StaticStep(c)
    \/ \E c \in Conns : RunMiddleware(c)
    \/ \E c \in Conns : RouteDispatch(c)

Spec == Init /\ [][Next]_vars

\* A step of the thread spawned for connection c.
ThreadStep(c) ==
    \/ ReadRequest(c)
    \/ ReadError(c)
    \/ ParseRequest(c)
    \/ StaticStep(c)
    \/ RunMiddleware(c)
    \/ RouteDispatch(c)

\* Every spawned thread is scheduled, every read returns and every closure
\* returns: a thread that can take a step eventually takes one.
SpecLive == Spec /\ \A c \in Conns : WF_vars(ThreadStep(c))

-----------------------------------------------------------------------------
(* HttpRequest::from on its own: one thread about to parse a request text   *)
(* drawn from a bounded set of texts.                                       *)

RECURSIVE JoinSpaces(_)
JoinSpaces(tokens) ==
    IF tokens = <<>> THEN <<>>
    ELSE IF Len(tokens) = 1 THEN tokens[1]
    ELSE tokens[1] \o <<" ">> \o JoinSpaces(Tail(tokens))

Target_q == <<"/", "s", "?", "q", "=", "1">>
Target_qq == <<"/", "s", "?", "a", "?", "b">>
LineTokens == {GET, Path_x, Target_q, Target_qq, Protocol}

\* Request lines of 0..MaxTokens tokens.
RequestLines ==
    {JoinSpaces(ts) : ts \in UNION {[1..k -> LineTokens] : k \in 0..MaxTokens}}

HeaderBlocks ==
    { <<>>,
      CRLF \o <<"K", ":", " ", "v">>,
      CRLF \o <<"K", ":", " ", "v">> \o CRLF \o <<"K", ":", " ", "w">>,
      CRLF \o <<"n", "o", "c", "o", "l", "o", "n">> }

Tails ==
    { <<>>,
      HeaderBodySep,
      HeaderBodySep \o <<"b">>,
      HeaderBodySep \o <<"b">> \o HeaderBodySep \o <<"c">> }

RawTexts == {l \o h \o t : l \in RequestLines, h \in HeaderBlocks, t \in Tails}

InitParse ==
    /\ phase = "running"
    /\ routers = EmptyMap
    /\ middlewares = <<>>
    /\ static_route = <<>>
    /\ nconn = 1
    /\ accept_errs = 0
    /\ pc = [c \in Conns |-> IF c = 1 THEN "parse" ELSE "idle"]
    /\ \E t \in RawTexts : sock = [c \in Conns |-> IF c = 1 THEN t ELSE <<>>]
    /\ result = sock
    /\ req = EmptyConn(NoReq)
    /\ res = EmptyConn(HttpResponse_new)
    /\ wire = EmptyConn(<<>>)
    /\ idx = EmptyConn(0)
    /\ log = EmptyConn(<<>>)
    /\ stderr = EmptyConn(FALSE)

NextParse == ParseRequest(1)

SpecParse == InitParse /\ [][NextParse]_vars

-----------------------------------------------------------------------------
(* HttpResponse on its own: a closure holding &mut HttpResponse calls the  *)
(* setters in any order and number; get_string serializes.                  *)

ResBodies ==
    { <<>>, <<"a">>, <<MultiByte>>, <<"a", MultiByte, "b">>, NotFoundBody,
      <<MultiByte, "1", "2", "3", "4", "5", "6", "7", "8">> }
ResStatuses == {DefaultStatus, Status500}
ResHeaders == {<<ContentType, TextPlain>>, <<ContentType, OctetStream>>,
               <<MwKey, MwVal>>}

InitRes ==
    /\ phase = "running"
    /\ routers = EmptyMap
    /\ middlewares = <<>>
    /\ static_route = <<>>
    /\ nconn = 1
    /\ accept_errs = 0
    /\ pc = [c \in Conns |-> IF c = 1 THEN "building" ELSE "idle"]
    /\ sock = EmptyConn(<<>>)
    /\ result = EmptyConn(<<>>)
    /\ req = EmptyConn(NoReq)
    /\ res = EmptyConn(HttpResponse_new)
    /\ wire = EmptyConn(<<>>)
    /\ idx = EmptyConn(0)
    /\ log = EmptyConn(<<>>)
    /\ stderr = EmptyConn(FALSE)

Building(c) == pc[c] \in {"building", "serialized"}

ResSetter(c, r) ==
    /\ Building(c)
    /\ res' = [res EXCEPT ![c] = r]
    /\ pc' = [pc EXCEPT ![c] = "building"]
    /\ UNCHANGED <<srv_vars, nconn, accept_errs, sock, result, req, wire, idx, log, stderr>>

CallSetBody(c, body) == ResSetter(c, set_body(res[c], body))

CallSetHeader(c, key, value) == ResSetter(c, set_header(res[c], key, value))

CallSetStatus(c, status) == ResSetter(c, set_status(res[c], status))

\* res.get_string(): wire[c] holds the text returned last.
CallGetString(c) ==
    /\ Building(c)
    /\ \E text \in Serializations(res[c]) : wire' = [wire EXCEPT ![c] = <<text>>]
    /\ pc' = [pc EXCEPT ![c] = "serialized"]
    /\ UNCHANGED <<srv_vars, nconn, accept_errs, sock, result, req, res, idx, log, stderr>>

NextRes ==
    \/ \E b \in ResBodies : CallSetBody(1, b)
    \/ \E h \in ResHeaders : CallSetHeader(1, h[1], h[2])
    \/ \E st \in ResStatuses : CallSetStatus(1, st)
    \/ CallGetString(1)

SpecRes == InitRes /\ [][NextRes]_vars

-----------------------------------------------------------------------------
(* Static resolution on its own: a server with one to MaxStatic static      *)
(* pairs and nothing else registered dispatches one request.                *)

MaxStatic == 2

Prefix_a == <<"/", "a">>
Prefix_mb == <<"/", MultiByte>>
UnitPrefixes == {Prefix_a, Prefix_mb}

\* Request paths: under a prefix (a file, a file with a known extension, a
\* file that is not UTF-8, a missing file, the directory itself), equal to a
\* prefix, and with a prefix as a mere leading substring.
UnitPaths ==
    { Prefix_a \o <<"/", "f">>,
      Prefix_a \o <<"/", "s", ".", "j", "s">>,
      Prefix_a \o <<"/", "p", ".", "p", "n", "g">>,
      Prefix_a \o <<"/", "m", ".", "c", "s", "s">>,
      Prefix_a \o <<"/">>,
      Prefix_a,
      Prefix_a \o <<"b", "/", "f">>,
      Prefix_mb,
      Prefix_mb \o <<"/", "f">>,
      Prefix_mb \o <<"/">>,
      Prefix_mb \o <<"a", "/", "f">> }

StaticTables ==
    UNION {[1..k -> UnitPrefixes \X StaticDirs] : k \in 1..MaxStatic}

InitStatic ==
    /\ phase = "running"
    /\ routers = EmptyMap
    /\ middlewares = <<>>
    /\ static_route \in StaticTables
    /\ nconn = 1
    /\ accept_errs = 0
    /\ pc = [c \in Conns |-> IF c = 1 THEN "parse" ELSE "idle"]
    /\ \E p \in UnitPaths :
           sock = [c \in Conns |-> IF c = 1 THEN RequestText(GET, p) ELSE <<>>]
    /\ result = sock
    /\ req = EmptyConn(NoReq)
    /\ res = EmptyConn(HttpResponse_new)
    /\ wire = EmptyConn(<<>>)
    /\ idx = EmptyConn(0)
    /\ log = EmptyConn(<<>>)
    /\ stderr = EmptyConn(FALSE)

NextStatic ==
    \/ ParseRequest(1)
    \/ StaticStep(1)
    \/ RunMiddleware(1)
    \/ RouteDispatch(1)

SpecStatic == InitStatic /\ [][NextStatic]_vars

-----------------------------------------------------------------------------
(* read_stream_to_httpstr on its own: each stream.read returns some chunk   *)
(* of at most BufLen bytes, or fails; at most MaxReads reads are followed.  *)

MaxReads == 3

Fill(n, byte) == [i \in 1..n |-> byte]

\* What one stream.read may return: nothing, short chunks, full chunks, and
\* chunks that cut a two-byte character in two.
Chunks ==
    { <<>>,
      <<"a">>,
      <<"xC3", "xA9">>,
      <<"xA9", "b">>,
      Fill(BufLen - 1, "a"),
      Fill(BufLen, "a"),
      Fill(BufLen, "b"),
      Fill(BufLen - 1, "a") \o <<"xC3">> }

InitRead ==
    /\ phase = "running"
    /\ routers = EmptyMap
    /\ middlewares = <<>>
    /\ static_route = <<>>
    /\ nconn = 1
    /\ accept_errs = 0
    /\ pc = [c \in Conns |-> IF c = 1 THEN "read" ELSE "idle"]
    /\ sock = EmptyConn(<<>>)
    /\ result = EmptyConn(<<>>)
    /\ req = EmptyConn(NoReq)
    /\ res = EmptyConn(HttpResponse_new)
    /\ wire = EmptyConn(<<>>)
    /\ idx = EmptyConn(0)
    /\ log = EmptyConn(<<>>)
    /\ stderr = EmptyConn(FALSE)

NextRead ==
    \/ \E bytes \in Chunks : Len(log[1]) < MaxReads /\ ReadChunk(1, bytes)
    \/ ReadError(1)

SpecRead == InitRead /\ [][NextRead]_vars

-----------------------------------------------------------------------------
(* Reading a response text off the wire, and a connection's log.            *)

\* The lines before the first blank line: the status line, then the headers.
WireLines(text) == Split(Split(text, HeaderBodySep)[1], CRLF)

WireStatus(text) == WireLines(text)[1]

WireHeaderLines(text) == {WireLines(text)[i] : i \in 2..Len(WireLines(text))}

\* Everything after the first blank line.
WireBody(text) ==
    SubSeq(text, Find(text, HeaderBodySep) + Len(HeaderBodySep), Len(text))

RECURSIVE ParseNat(_)
\* The number a sequence of decimal digits denotes.
ParseNat(ds) ==
    IF ds = <<>> THEN 0
    ELSE LET d == ds[Len(ds)]
             v == CHOOSE n \in 0..9 : Decimal(n) = <<d>>
         IN  10 * ParseNat(SubSeq(ds, 1, Len(ds) - 1)) + v

IsDigits(ds) ==
    ds # <<>> /\ \A i \in 1..Len(ds) : \E n \in 0..9 : Decimal(n) = <<ds[i]>>

HeaderLine(key, value) == key \o ColonSpace \o value

Terminal(c) == pc[c] \in {"done", "failed", "panicked"}

Parsed(c) == req[c].kind = "ok"

\* The entries of connection c's log of the given kind, in order.
Events(c, kind) == SelectSeq(log[c], LAMBDA e : e[1] = kind)

HasEvent(c, kind) == Events(c, kind) # <<>>

\* The code's static test matched some registered pair for the request of c.
StaticMatched(c) ==
    \E i \in 1..Len(static_route) :
        StaticMatch(get_path(req[c]), static_route[i][1]) = "match"

-----------------------------------------------------------------------------
(* Claims.                                                                  *)

\* C1: once a static response has been sent for a request, dispatch ends: no
\* route-table lookup, no route handler and no 404 fallback for that request.
Claim_C1 ==
    \A c \in Conns :
        HasEvent(c, "static") =>
            /\ ~HasEvent(c, "lookup")
            /\ ~HasEvent(c, "handler")
            /\ ~HasEvent(c, "notfound")

\* C2: at most one response is written onto a connection, and a connection
\* whose dispatch ran to its end received exactly one.
Claim_C2 ==
    \A c \in Conns :
        /\ Len(wire[c]) <= 1
        /\ pc[c] = "done" => Len(wire[c]) = 1

\* C3: every middleware has run before a static pair is resolved, before the
\* route table is looked up and before any response is written.
Claim_C3 ==
    \A c \in Conns : \A j \in 1..Len(log[c]) :
        log[c][j][1] \in {"static", "lookup", "write"} =>
            \A i \in 1..Len(middlewares) :
                \E k \in 1..(j - 1) : log[c][k] = <<"mw", i>>

\* C4: for a request that was parsed, when its dispatch has ended every
\* registered middleware has been invoked exactly once, in registration order.
Claim_C4 ==
    \A c \in Conns :
        (Terminal(c) /\ Parsed(c)) =>
            Events(c, "mw") = [i \in 1..Len(middlewares) |-> <<"mw", i>>]

\* C5: a parsed request that no static prefix matches and whose (method, path)
\* is registered has, when its dispatch has ended, invoked that key's handler
\* exactly once and no other handler; with no such key it invoked none.
Claim_C5 ==
    \A c \in Conns :
        (Terminal(c) /\ Parsed(c) /\ ~StaticMatched(c)) =>
            Events(c, "handler") =
                IF RouteKey(req[c]) \in DOMAIN routers
                THEN <<(<<"handler", routers[RouteKey(req[c])]>>)>>
                ELSE <<>>

\* The request of c is in no route and the static test matched no pair.
Unrouted(c) ==
    /\ Parsed(c)
    /\ RouteKey(req[c]) \notin DOMAIN routers
    /\ ~StaticMatched(c)

\* The response text is a 404 fallback with the given status line.
IsNotFoundText(text, status) ==
    /\ WireBody(text) = NotFoundBody
    /\ \A lines \in {WireLines(text)} :
           /\ lines[1] = status
           /\ \E i \in 2..Len(lines) : lines[i] = HeaderLine(ContentType, TextPlain)
           /\ \A i \in 2..Len(lines) :
                  MatchAt(lines[i], ContentType \o ColonSpace, 1) =>
                      lines[i] = HeaderLine(ContentType, TextPlain)

\* C6 as stated: an unrouted request yields status line "HTTP/1.1 200 OK",
\* body "404 Not Found" and header Content-Type: text/plain.
Claim_C6 ==
    \A c \in Conns :
        Unrouted(c) =>
            /\ \A k \in 1..Len(wire[c]) : IsNotFoundText(wire[c][k], DefaultStatus)
            /\ pc[c] = "done" => Len(wire[c]) = 1

\* The status line the middleware chain leaves: that of the last middleware
\* that calls set_status, the default one when none does.
StatusAfterChain ==
    IF \E i \in 1..Len(middlewares) : middlewares[i] = "status"
    THEN Status500 ELSE DefaultStatus

\* C6 (amended): the only response written for an unrouted request has body
\* "404 Not Found", header Content-Type: text/plain and the status line the
\* middleware chain left, "HTTP/1.1 200 OK" when no middleware set one.
Thm_C6 ==
    \A c \in Conns :
        Unrouted(c) =>
            /\ \A k \in 1..Len(wire[c]) : IsNotFoundText(wire[c][k], StatusAfterChain)
            /\ Len(wire[c]) <= 1
            /\ pc[c] = "done" => Len(wire[c]) = 1

\* An unrouted request got its 404 response after a middleware set the status.
Wit_C6 ==
    \E c \in Conns :
        /\ Unrouted(c)
        /\ pc[c] = "done"
        /\ Len(wire[c]) = 1
        /\ StatusAfterChain = Status500
        /\ Len(static_route) > 0

\* C7: the line after the status line of a serialized response is
\* "Content-Length: n" with n the length in bytes of the body at that time.
Thm_C7 ==
    pc[1] = "serialized" =>
        LET line == WireLines(wire[1][1])[2]
            n    == SubSeq(line, Len(ContentLengthPrefix) + 1, Len(line))
        IN  /\ MatchAt(line, ContentLengthPrefix, 1)
            /\ IsDigits(n)
            /\ ParseNat(n) = ByteLen(res[1].body)
            /\ WireBody(wire[1][1]) = res[1].body

\* A response whose body holds a multi-byte character and is ten bytes long
\* was serialized with two other headers set.
Wit_C7 ==
    /\ pc[1] = "serialized"
    /\ ByteLen(res[1].body) = 10
    /\ Len(res[1].body) = 9
    /\ Cardinality(DOMAIN res[1].headers) = 2

\* The text has a header/body separator, a request line, and three tokens on it.
WellFormedText(t) ==
    /\ Find(t, HeaderBodySep) # 0
    /\ Lines(Split(t, HeaderBodySep)[1]) # <<>>
    /\ Len(SplitWhitespace(Lines(Split(t, HeaderBodySep)[1])[1])) >= 3

\* C8: HttpRequest::from returns Err for a text that lacks the separator, the
\* request line or one of the three tokens, and Ok for every other text.
Claim_C8 ==
    pc[1] # "parse" =>
        IF WellFormedText(sock[1])
        THEN Parsed(1)
        ELSE pc[1] = "failed" /\ stderr[1]

\* The same view of two response texts, whatever the order of their headers.
SameResponse(a, b) ==
    /\ WireStatus(a) = WireStatus(b)
    /\ WireLines(a)[2] = WireLines(b)[2]
    /\ WireHeaderLines(a) = WireHeaderLines(b)
    /\ WireBody(a) = WireBody(b)

\* C9: a connection that failed was dropped without a response; the accept
\* loop still accepts; connections that were served the same request text got
\* the same responses, whatever else ran meanwhile.
Claim_C9 ==
    /\ \A c \in Conns : pc[c] \in {"failed", "panicked"} => wire[c] = <<>>
    /\ (phase = "running" /\ nconn < MaxConns) =>
           ENABLED (\E t \in ConnTexts : Accept(t))
    /\ \A c, d \in Conns :
           (pc[c] = "done" /\ pc[d] = "done" /\ sock[c] = sock[d]) =>
               /\ Len(wire[c]) = Len(wire[d])
               /\ \A k \in 1..Len(wire[c]) : SameResponse(wire[c][k], wire[d][k])

\* C10: a parsed request has the first line's three tokens as method, target
\* and protocol; its path is the target before the first "?" and its query
\* string is all of the target after the first "?" (empty without a "?").
Claim_C10 ==
    Parsed(1) =>
        LET tokens == SplitWhitespace(Lines(Split(sock[1], HeaderBodySep)[1])[1])
            target == tokens[2]
            q      == Find(target, <<"?">>)
        IN  /\ get_method(req[1]) = tokens[1]
            /\ get_protocol(req[1]) = tokens[3]
            /\ get_path(req[1]) = IF q = 0 THEN target ELSE SubSeq(target, 1, q - 1)
            /\ get_params(req[1]) =
                   IF q = 0 THEN <<>> ELSE SubSeq(target, q + 1, Len(target))
            /\ Find(get_path(req[1]), <<"?">>) = 0

\* The path starts with the prefix and its next character is "/".
PrefixThenSlash(rpath, prefix) ==
    /\ Len(rpath) > Len(prefix)
    /\ SubSeq(rpath, 1, Len(prefix)) = prefix
    /\ rpath[Len(prefix) + 1] = "/"

\* The static pairs the loop of connection c has gone through.
Evaluated(c) == {i \in 1..Len(static_route) : i < idx[c]}

\* C11: in a dispatch that did not abort, a static pair that was evaluated
\* matched the request exactly when the request path starts with the pair's
\* prefix followed by "/".
Claim_C11 ==
    \A c \in Conns : \A i \in Evaluated(c) :
        pc[c] # "panicked" =>
        (\E j \in 1..Len(log[c]) : log[c][j] = <<"static", i>>)
            <=> PrefixThenSlash(get_path(req[c]), static_route[i][1])

\* C12: at most one static pair is served for a request, and once a pair has
\* matched the loop evaluates no later pair.
Claim_C12 ==
    \A c \in Conns :
        /\ Len(Events(c, "static")) <= 1
        /\ \A j \in 1..Len(log[c]) :
               log[c][j][1] = "static" => idx[c] = log[c][j][2] + 1

\* The file the static pair i resolves the request path of c to.
ResolvedFile(c, i) ==
    StaticFile(get_path(req[c]), static_route[i][1], static_route[i][2])

\* C13: a response written for a matched static pair has, when the resolved
\* file exists, the file's bytes as body and the Content-Type of its
\* extension; otherwise body "file not found" and status "HTTP/1.1 200 OK".
Claim_C13 ==
    \A c \in Conns : \A j \in 1..Len(log[c]) :
        (log[c][j][1] = "static" /\ j < Len(log[c]) /\ log[c][j + 1][1] = "write") =>
            LET file == ResolvedFile(c, log[c][j][2])
                text == wire[c][log[c][j + 1][2]]
            IN  IF PathExists(file)
                THEN /\ FsRead(file).some
                     /\ as_bytes(WireBody(text)) = FsRead(file).val
                     /\ HeaderLine(ContentType, get_mime_type(file))
                            \in WireHeaderLines(text)
                ELSE /\ WireBody(text) = FileNotFoundBody
                     /\ WireStatus(text) = DefaultStatus

\* C14: a matched static pair whose file exists but cannot be read does not
\* abort the dispatch, and the response written for it has body
\* "file not found" and status "HTTP/1.1 200 OK".
Claim_C14 ==
    \A c \in Conns : \A j \in 1..Len(log[c]) :
        (/\ log[c][j][1] = "static"
         /\ PathExists(ResolvedFile(c, log[c][j][2]))
         /\ ~FsRead(ResolvedFile(c, log[c][j][2])).some) =>
            /\ ~(j = Len(log[c]) /\ pc[c] = "panicked")
            /\ (j < Len(log[c]) /\ log[c][j + 1][1] = "write") =>
                   /\ WireBody(wire[c][log[c][j + 1][2]]) = FileNotFoundBody
                   /\ WireStatus(wire[c][log[c][j + 1][2]]) = DefaultStatus

\* C15: the body of a parsed request is all of the text after the first
\* "\r\n\r\n", empty when the text has none.
Claim_C15 ==
    Parsed(1) =>
        get_body(req[1]) =
            IF Find(sock[1], HeaderBodySep) = 0 THEN <<>>
            ELSE SubSeq(sock[1], Find(sock[1], HeaderBodySep) + Len(HeaderBodySep),
                        Len(sock[1]))

\* The chunks the reads of connection c returned, in order.
ReadChunks(c) == [k \in 1..Len(Events(c, "read")) |-> Events(c, "read")[k][2]]

RECURSIVE DecodedConcat(_)
\* The chunks, each decoded as it was read, one after the other.
DecodedConcat(chunks) ==
    IF chunks = <<>> THEN <<>>
    ELSE DecodedConcat(SubSeq(chunks, 1, Len(chunks) - 1))
             \o from_utf8_lossy(chunks[Len(chunks)])

\* C16: every read but the last returned a full buffer of 512 bytes; the
\* loop goes on exactly while the last read was full; when it has returned,
\* the last read was short or empty and the text is the chunks read, in
\* order; after a read error no text is returned and the error is reported.
Thm_C16 ==
    \A chunks \in {ReadChunks(1)} :
        /\ BufLen = 512
        /\ \A k \in 1..Len(chunks) : Len(chunks[k]) <= BufLen
        /\ \A k \in 1..Len(chunks) : k < Len(chunks) => Len(chunks[k]) = BufLen
        /\ pc[1] = "read" => \A k \in 1..Len(chunks) : Len(chunks[k]) = BufLen
        /\ pc[1] = "parse" =>
               /\ chunks # <<>>
               /\ Len(chunks[Len(chunks)]) < BufLen
               /\ result[1] = DecodedConcat(chunks)
        /\ pc[1] = "failed" => result[1] = <<>> /\ stderr[1] /\ req[1] = NoReq
        /\ pc[1] \in {"read", "parse", "failed"}

\* The loop returned after two full reads and a short one that is not empty.
Wit_C16 ==
    /\ pc[1] = "parse"
    /\ Len(ReadChunks(1)) = 3
    /\ Len(ReadChunks(1)[3]) \in 1..(BufLen - 1)
    /\ Len(result[1]) > 2 * BufLen

\* handle_stream returned Ok(()) after writing a response.
Success(c) == pc[c] = "done" /\ wire[c] # <<>>

\* handle_stream returned an error, which run printed, and nothing was written.
Failure(c) == pc[c] = "failed" /\ stderr[c] /\ wire[c] = <<>>

\* C17: every accepted connection eventually ends as a success (a response
\* written, the thread returned Ok) or as a failure (an error printed, the
\* connection dropped with nothing written).
Claim_C17 == \A c \in Conns : (pc[c] = "read") ~> (Success(c) \/ Failure(c))

\* The three tables of the server.
Tables == <<routers, middlewares, static_route>>

\* C18: no registration panics; while registrations are possible no
\* connection has been accepted and every table has one owner; a step that
\* changes a table is taken before run, with no connection accepted; no step
\* of a running server, whatever the threads do, changes a table.
Thm_C18 ==
    /\ [](phase # "panicked")
    /\ [](CanRegister => (nconn = 0 /\ strong_count = 1))
    /\ [][Tables' # Tables => (phase = "config" /\ nconn = 0 /\ get_mut.some)]_vars
    /\ [][phase = "running" => Tables' = Tables]_vars

\* Two threads are in their dispatch at once, each holding clones of the
\* tables, which hold a route and a middleware.
Wit_C18 ==
    /\ phase = "running"
    /\ Cardinality(Live) = 2
    /\ strong_count = 3
    /\ pc[1] = "route" /\ pc[2] = "static"
    /\ DOMAIN routers # {}
    /\ Len(static_route) > 0

\* The closures the thread of connection c has invoked, in order.
Invoked(c) == SelectSeq(log[c], LAMBDA e : e[1] \in {"mw", "handler", "notfound"})

\* C19: with no static directory registered, a dispatch of HttpServer ends
\* as the dispatch of Server on the same text and tables does: it panics
\* exactly when that one does, and when it has written, it has invoked the
\* same closures in the same order and written one response, the same one.
Thm_C19 ==
    static_route = <<>> =>
        \A c \in Conns :
            pc[c] \in {"done", "panicked"} =>
                \A o \in {Server_handle_stream(result[c], routers, middlewares)} :
                    /\ pc[c] = "panicked" <=> o.kind = "panic"
                    /\ pc[c] = "done" =>
                           /\ Invoked(c) = o.events
                           /\ Len(wire[c]) = 1
                           /\ wire[c][1] \in Serializations(o.res)
                           /\ res[c] = o.res

\* A server with a middleware, a route and no static directory has served
\* the route's request.
Wit_C19 ==
    /\ static_route = <<>>
    /\ Len(middlewares) = 1
    /\ \E c \in Conns :
           /\ pc[c] = "done"
           /\ Len(wire[c]) = 1
           /\ HasEvent(c, "handler")
           /\ HasEvent(c, "mw")

\* C20: the test of a static pair against a request path never aborts the
\* dispatch: for every pair the loop has gone through, the byte slice and
\* the character lookup were both defined.
Claim_C20 ==
    \A c \in Conns : \A i \in Evaluated(c) :
        StaticMatch(get_path(req[c]), static_route[i][1]) # "panic"

====
